---------------------------- MODULE Spec2Model ----------------------------
(***************************************************************************)
(* A model of clip-annotator: the label workflow (labeler.py, and the      *)
(* earlier main.py), the match workflow (matcher.py) and the clip viewer   *)
(* with its decode worker (utils.py: VideoPlayer, VideoLoaderThread).      *)
(*                                                                         *)
(* Conventions.                                                            *)
(*  - Python lists are sequences; Python indices are kept 0-based, so the  *)
(*    entry at Python index i is annotations[i + 1].                       *)
(*  - A label is a number: 0 is the empty string "", and the numbers       *)
(*    1, 2, ... are non-empty strings in lexicographic order, so that      *)
(*    Python's sorted() on labels is the numeric sort.                     *)
(*  - A label entry is <<path, start, end, labels>>; a match entry is      *)
(*    <<query, targets, target_metadata, similar, dissimilar>>; a clip is  *)
(*    <<path, start, end>>.                                                *)
(*  - One viewer (VideoPlayer) is followed: the only viewer of labeler.py  *)
(*    or of main.py, or in the matcher the target viewer number            *)
(*    ObservedTarget.  The viewers of the matcher share no state, so the   *)
(*    others behave alike.                                                 *)
(*  - The runs share the variables: SpecLabel and SpecMatch follow the     *)
(*    document of a window (SpecDoc is either of them), SpecPlayer follows *)
(*    the viewer, its worker threads and the clock, SpecLoad follows the   *)
(*    opening of a file, SpecHelpers the list helpers called on their own, *)
(*    SpecMain the document of the window of main.py.                      *)
(*  - last, since, burst, navs and ops are history variables: they record  *)
(*    what happened; navs and ops also bound the length of a run.          *)
(***************************************************************************)
EXTENDS Integers, Sequences, FiniteSets, TLC

\* ------------------------------------------------------------ bounds
\* Entries of a label document.
NEntries == 2
\* Labels are 0..MaxLabel (0 is the empty string).
MaxLabel == 1
\* The longest label list an add may produce.
MaxLen == 2
\* Entries of a match document.
NMatchEntries == 2
\* Target viewers of the match window (max_videos of the loaded document).
NTargets == 2
\* Classifications handled in one run of the match workflow.
MaxClassify == 1
\* Thread objects that can exist at a time for the viewer.
NThreads == 2
\* Index changes in one run of the viewer.
MaxNav == 3
\* One step of the clock, in milliseconds.
TickMs == 25
\* Python's None.
None == "None"

Labels == 0..MaxLabel

\* ------------------------------------------------------------ Python helpers

\* x in items
In(x, items) == \E i \in DOMAIN items : items[i] = x

RECURSIVE insort(_, _)
\* x inserted into the sorted sequence s, after any elements equal to it
insort(s, x) ==
    IF s = <<>> THEN <<x>>
    ELSE IF x < Head(s) THEN <<x>> \o s
    ELSE <<Head(s)>> \o insort(Tail(s), x)

RECURSIVE sorted(_)
\* Python's sorted(items) on a list of numbers
sorted(items) ==
    IF items = <<>> THEN <<>>
    ELSE insort(sorted(SubSeq(items, 1, Len(items) - 1)), items[Len(items)])

RECURSIVE sorted_set(_)
\* Python's sorted(a_set)
sorted_set(S) ==
    IF S = {} THEN <<>>
    ELSE LET m == CHOOSE x \in S : \A y \in S : x <= y
         IN  <<m>> \o sorted_set(S \ {m})

\* Python's truth value of a number / of a list
truthy(x) == x # 0

\* ------------------------------------------------------------ utils.py

\* A safe_add that puts the new label at the end.
safe_add__unsorted(items, new_item) ==
    IF ~In(new_item, items) THEN Append(items, new_item) ELSE items

\* A safe_add without the test for a label that is already there.
safe_add__always(items, new_item) == sorted(Append(items, new_item))

safe_add(items, new_item) ==
    IF ~In(new_item, items) THEN sorted(Append(items, new_item)) ELSE items

safe_remove(items, item) ==
    sorted(SelectSeq(items, LAMBDA i : i # item))

safe_substitute(items, old_item, new_item) ==
    sorted([k \in DOMAIN items |->
               IF items[k] = old_item THEN new_item ELSE items[k]])

\* ------------------------------------------------------------ clips

\* The video file every clip of the modelled documents is cut from.
Path == "a.mp4"
\* Clip number i (0-based) is frames [ClipStart(i), ClipEnd(i)) of Path: the clips
\* have 1, 2, 1, 2, ... frames and do not overlap, so a frame number names its clip.
ClipStart(i) == i + (i \div 2)
ClipEnd(i) == ClipStart(i) + 1 + (i % 2)
Clip(i) == <<Path, ClipStart(i), ClipEnd(i)>>

\* ------------------------------------------------------------ state

VARIABLES
    \* MainWindow (labeler.py, matcher.py)
    annotations,        \* self.annotations
    file,               \* the content of the file at self.annotations_path
    current_index,      \* self.current_index
    window,             \* "none", "loaded" (load_annotations returned), "open",
                        \* "failed" (the constructor raised or exited) or "closed"
    label_options_box,  \* labeler: the labels shown in the label options box
    current_labels_box, \* labeler: the labels shown in the current labels box
    metadata_box,       \* labeler: the text of the metadata box
    unsaved_changes,    \* matcher: self.unsaved_changes
    index_label,        \* matcher: the text of the index label
    background,         \* matcher: background colour of each target viewer
    \* the viewer followed, its threads and the event loop
    video_player,       \* the fields of the VideoPlayer
    threads,            \* the VideoLoaderThread objects, by slot
    events,             \* video_loaded emissions queued for the event loop
    main_pc,            \* where the event-loop thread is
    debounce_timer,     \* main.py: self.debounce_timer of the window
    \* the disk and the screen
    disk,               \* the paths for which os.path.exists is true
    dialog,             \* the paths the ErrorDialog lists, None without dialog
    writable,           \* whether open(self.annotations_path, "w") and the
                        \* writing that follows succeed
    entry_type,         \* the Python type of the entries of self.annotations:
                        \* "list" (as json.load builds them) or "tuple"
    \* history
    mode,               \* which program runs ("label", "match", "main"), "load" for
                        \* the loading of a file, "helpers" for the helper functions
    call,               \* the last call of a helper function on its own
    last,               \* the last event handled
    since,              \* milliseconds since the last index change (capped)
    burst,              \* the index changes that followed each other closely
    navs,               \* index changes so far
    ops                 \* classifications so far

windowVars == <<annotations, file, current_index, window, label_options_box,
                current_labels_box, metadata_box, unsaved_changes, index_label,
                background>>
viewerVars == <<video_player, threads, events, main_pc, debounce_timer>>
diskVars == <<disk, dialog, writable, entry_type>>
historyVars == <<mode, call, last, since, burst, navs, ops>>
vars == <<windowVars, viewerVars, diskVars, historyVars>>

\* ------------------------------------------------------------ utils.py: VideoPlayer

\* The interval of the debounce timer, in milliseconds.
DebounceMs == 50

NoThread ==
    [st |-> "none", video_info |-> None, pc |-> "-", frame |-> 0,
     video_array |-> <<>>, intr |-> FALSE, emitted |-> FALSE]

\* VideoPlayer.__init__
NewVideoPlayer ==
    [video_info |-> None, video_array |-> None, current_frame |-> None,
     video_loader |-> 0, frame_timer |-> FALSE,
     debounce_timer |-> [active |-> FALSE, left |-> 0],
     video_label |-> None, medatada_label |-> None]

\* self.video_loader and self.video_loader.isRunning()
isRunning(v) ==
    v.video_loader # 0 /\ threads[v.video_loader].st = "running"

\* A load_video that leaves a running debounce timer running.
load_video__no_restart(v, video_info) ==
    [v EXCEPT !.video_info = video_info,
              !.debounce_timer = IF v.debounce_timer.active THEN v.debounce_timer
                                 ELSE [active |-> TRUE, left |-> DebounceMs]]

\* VideoPlayer.load_video: the player after the call
load_video(v, video_info) ==
    [v EXCEPT !.video_info = video_info,
              !.debounce_timer = [active |-> TRUE, left |-> DebounceMs]]

\* VideoPlayer.clear_video from the line after wait(): the player after the call
clear_video(v) ==
    [v EXCEPT !.debounce_timer = [active |-> FALSE, left |-> 0],
              !.video_array = None,
              !.current_frame = None,
              !.video_label = None,
              !.medatada_label = None]

\* VideoPlayer.set_metadata
set_metadata(v, metadata) == [v EXCEPT !.medatada_label = metadata]

\* A play_video that keeps the cursor of the clip played before, if the new clip
\* has a frame there.
play_video__keeps_cursor(v, video_array) ==
    [v EXCEPT !.video_array = video_array,
              !.current_frame = IF v.video_array = None THEN 0
                                ELSE v.current_frame % Len(video_array),
              !.frame_timer = TRUE]

\* VideoPlayer.play_video
play_video(v, video_array) ==
    [v EXCEPT !.video_array = video_array,
              !.current_frame = 0,
              !.frame_timer = TRUE]

\* VideoPlayer.update_frame
update_frame(v) ==
    IF v.video_array = None THEN v
    ELSE [v EXCEPT !.video_label = v.video_array[v.current_frame + 1],
                   !.current_frame = (v.current_frame + 1) % Len(v.video_array)]

\* ------------------------------------------------------------ labeler.py

\* The denominator of the hue: 10**8.
HueUnits == 100000000

\* int(hashlib.sha256(text.encode("utf-8")).hexdigest(), 16) % (10**8) of the
\* labels "", "a", "b" and "c", which stand for the labels 0, 1, 2 and 3.
hash_int_mod(text) == <<65086549, 56493499, 52471965, 35618758>>[text + 1]

\* int(255 * x) for x = part / 10**8, in steps that stay within 32 bits
int255(part) ==
    (255 * (part \div 10000) + (255 * (part % 10000)) \div 10000) \div 10000

\* [int(255 * x) for x in colorsys.hsv_to_rgb(hue, 1, 1)] for hue = h / 10**8:
\* with s = v = 1, p is 0, q is 1 - f and t is f
hsv_to_rgb(h) ==
    LET i == (6 * h) \div HueUnits
        f == 6 * h - i * HueUnits
        v == 255
        p == 0
        q == int255(HueUnits - f)
        t == int255(f)
    IN  CASE i % 6 = 0 -> <<v, t, p>>
          [] i % 6 = 1 -> <<q, v, p>>
          [] i % 6 = 2 -> <<p, v, t>>
          [] i % 6 = 3 -> <<p, q, v>>
          [] i % 6 = 4 -> <<t, p, v>>
          [] i % 6 = 5 -> <<v, p, q>>

\* A text_to_color seeded with the label and the index shown.
text_to_color__by_index(text) == hsv_to_rgb(hash_int_mod((text + current_index) % 4))

\* text_to_color of labeler.py and of main.py
text_to_color(text) == hsv_to_rgb(hash_int_mod(text))

\* A get_unique_labels that reads the first entry only.
get_unique_labels__first_entry(a) ==
    sorted_set({a[1][4][j] : j \in DOMAIN a[1][4]})

\* get_unique_labels
get_unique_labels(a) ==
    sorted_set(UNION {{a[k][4][j] : j \in DOMAIN a[k][4]} : k \in DOMAIN a})

\* MainWindow.get_start_index of labeler.py
Labeler_get_start_index(a) ==
    LET is_annotated == [k \in DOMAIN a |-> Len(a[k][4]) > 0]
    IN  IF ~(\E k \in DOMAIN a : is_annotated[k]) THEN 0
        ELSE (CHOOSE k \in DOMAIN a :
                 /\ is_annotated[k]
                 /\ \A j \in DOMAIN a : is_annotated[j] => j <= k)

\* get_start_index of main.py: is_annotated lists the 0-based indices of the
\* labeled entries, and any() of a list of numbers is true when one is not 0.
Main_get_start_index(a) ==
    LET is_annotated == {k - 1 : k \in {j \in DOMAIN a : a[j][4] # <<>>}}
    IN  IF ~(\E i \in is_annotated : truthy(i)) THEN 0
        ELSE (CHOOSE i \in is_annotated : \A j \in is_annotated : j <= i) + 1

\* A reader that loses the last entry of the file.
json_load__truncated(text) == SubSeq(text, 1, Len(text) - 1)

\* json.load and json.dump of a document: the file holds an array of entries and
\* the program a list of them, both sequences here; the entries are lists of
\* strings, integers and lists, which JSON carries as they are.
json_load(text) == [k \in 1..Len(text) |-> text[k]]
json_dump(obj) == [k \in 1..Len(obj) |-> obj[k]]

\* A save that writes nothing.
Labeler_save_annotations__skipped(a) == UNCHANGED file

\* What a save that raises OSError leaves in the file: what it held when open()
\* raised, nothing when the writing raised after open() had truncated the file.
FailedWrite == {file, <<>>}

\* MainWindow.save_annotations of labeler.py: json.dump of the whole document.
\* The OSError of a failing save leaves the handler, whose last statement this is.
Labeler_save_annotations(a) ==
    IF writable THEN file' = json_dump(a) ELSE file' \in FailedWrite

\* MainWindow.update_annotations, for the new value a of self.annotations
update_annotations(a) ==
    /\ label_options_box' = get_unique_labels(a)
    /\ current_labels_box' = a[current_index + 1][4]
    /\ Labeler_save_annotations(a)

\* What a handler of the label window leaves alone besides the document.
LabelFrame ==
    /\ UNCHANGED <<current_index, window, metadata_box, unsaved_changes,
                   index_label, background>>
    /\ UNCHANGED viewerVars
    /\ UNCHANGED <<diskVars, mode, call, since, burst, navs, ops>>

\* The event loop dispatches an event of the window.
Dispatch == window = "open" /\ main_pc.at = "idle"

\* An add that puts the label on every entry.
added__everywhere(a, index, label) ==
    [k \in DOMAIN a |-> <<a[k][1], a[k][2], a[k][3], safe_add(a[k][4], label)>>]

\* The document add_label stores: the labels of the entry at index with label
added(a, index, label) ==
    [a EXCEPT ![index + 1][4] = safe_add(a[index + 1][4], label)]

\* The document remove_label stores
removed(a, index, label) ==
    [a EXCEPT ![index + 1][4] = safe_remove(a[index + 1][4], label)]

\* A delete that takes the label off the first entry only.
deleted__first_entry(a, label) ==
    [k \in DOMAIN a |->
        <<a[k][1], a[k][2], a[k][3],
          IF k = 1 THEN safe_remove(a[k][4], label) ELSE a[k][4]>>]

\* The document delete_label stores when the answer is Yes
deleted(a, label) ==
    [k \in DOMAIN a |-> <<a[k][1], a[k][2], a[k][3], safe_remove(a[k][4], label)>>]

\* The document edit_label stores when the dialog is accepted with a text
renamed(a, old_label, new_label) ==
    [k \in DOMAIN a |->
        <<a[k][1], a[k][2], a[k][3], safe_substitute(a[k][4], old_label, new_label)>>]

\* MainWindow.add_label
add_label(label) ==
    /\ Dispatch /\ mode = "label"
    /\ LET current_labels == annotations[current_index + 1][4]
       IN  /\ In(label, current_labels) \/ Len(current_labels) < MaxLen
           /\ annotations' = added(annotations, current_index, label)
    /\ update_annotations(annotations')
    /\ last' = <<"add_label", annotations' # annotations>>
    /\ LabelFrame

\* MainWindow.remove_label: the label of a button of the current labels box
remove_label(label) ==
    /\ Dispatch /\ mode = "label"
    /\ In(label, current_labels_box)
    /\ annotations' = removed(annotations, current_index, label)
    /\ update_annotations(annotations')
    /\ last' = <<"remove_label", annotations' # annotations>>
    /\ LabelFrame

\* MainWindow.delete_label: the label of a button of the label options box, and
\* the answer to the question
delete_label(label, reply) ==
    /\ Dispatch /\ mode = "label"
    /\ In(label, label_options_box)
    /\ IF reply = "Yes"
       THEN /\ annotations' = deleted(annotations, label)
            /\ update_annotations(annotations')
       ELSE UNCHANGED <<annotations, file, label_options_box, current_labels_box>>
    /\ last' = <<"delete_label", reply, annotations' # annotations>>
    /\ LabelFrame

\* MainWindow.edit_label: the label of a button of the label options box, and the
\* text and the answer of the input dialog
edit_label(old_label, new_label, ok) ==
    /\ Dispatch /\ mode = "label"
    /\ In(old_label, label_options_box)
    /\ IF ok /\ truthy(new_label)
       THEN /\ annotations' = renamed(annotations, old_label, new_label)
            /\ update_annotations(annotations')
       ELSE UNCHANGED <<annotations, file, label_options_box, current_labels_box>>
    /\ last' = <<"edit_label", ok /\ truthy(new_label), annotations' # annotations>>
    /\ LabelFrame

\* MainWindow.set_current_index of labeler.py (the scrollbar's valueChanged, which
\* is emitted for a new value in its range only).  Its effect on history is
\* stated by the caller.
Labeler_set_current_index(index) ==
    /\ Dispatch /\ mode = "label"
    /\ index \in 0..(Len(annotations) - 1) /\ index # current_index
    /\ current_index' = index
    /\ LET e == annotations[index + 1]
       IN  /\ metadata_box' = <<index, e[1], e[2], e[3]>>
           /\ current_labels_box' = e[4]
           /\ video_player' = load_video(video_player, <<e[1], e[2], e[3]>>)
    /\ last' = <<"set_current_index">>
    /\ UNCHANGED <<annotations, file, window, label_options_box, unsaved_changes,
                   index_label, background>>
    /\ UNCHANGED <<threads, events, main_pc, debounce_timer>>
    /\ UNCHANGED <<diskVars, mode, call, ops>>

\* ------------------------------------------------------------ label documents

StrictlySorted(s) ==
    \A i \in DOMAIN s : \A j \in DOMAIN s : i < j => s[i] < s[j]

\* The label lists a well-formed file holds: strictly sorted, at most MaxLen long.
LabelLists ==
    {sorted_set(S) : S \in {T \in SUBSET Labels : Cardinality(T) <= MaxLen}}

\* The label documents that are loaded.
LabelFiles ==
    {[k \in 1..NEntries |-> <<Path, ClipStart(k - 1), ClipEnd(k - 1), ll[k]>>] :
        ll \in [1..NEntries -> LabelLists]}

\* MainWindow.__init__ of labeler.py up to the first set_current_index.  The call
\* get_start_index(self.annotations) of line 97 names no function of labeler.py;
\* it is read as the function of that name of main.py.
LabelWindow(f) ==
    /\ mode = "label"
    /\ file = f
    /\ annotations = file
    /\ LET start == Main_get_start_index(annotations)
       IN  /\ current_index = start
           /\ IF start < Len(annotations)
              THEN /\ window = "open"
                   /\ LET e == annotations[start + 1]
                      IN  /\ metadata_box = <<start, e[1], e[2], e[3]>>
                          /\ current_labels_box = e[4]
                          /\ video_player = load_video(NewVideoPlayer, <<e[1], e[2], e[3]>>)
              ELSE /\ window = "failed"
                   /\ metadata_box = None
                   /\ current_labels_box = <<>>
                   /\ video_player = NewVideoPlayer
    /\ label_options_box = get_unique_labels(annotations)
    /\ unsaved_changes = FALSE /\ index_label = None /\ background = <<>>
    /\ threads = [t \in 1..NThreads |-> NoThread]
    /\ events = <<>>
    /\ main_pc = [at |-> "idle", index |-> None]
    /\ debounce_timer = [active |-> FALSE, left |-> 0]
    /\ last = <<"__init__">>
    /\ call = None
    /\ disk = {Path} /\ dialog = None /\ entry_type = "list"
    /\ since = 0 /\ burst = [n |-> 1, loads |-> 0] /\ navs = 0 /\ ops = 0

LabelInit == writable = TRUE /\ \E f \in LabelFiles : LabelWindow(f)

LabelNavigate(index) ==
    /\ Labeler_set_current_index(index)
    /\ UNCHANGED <<since, burst, navs>>

LabelNext ==
    \/ \E label \in Labels : add_label(label)
    \/ \E label \in Labels : remove_label(label)
    \/ \E label \in Labels, reply \in {"Yes", "No"} : delete_label(label, reply)
    \/ \E old_label \in Labels, new_label \in Labels, ok \in BOOLEAN :
          edit_label(old_label, new_label, ok)
    \/ \E index \in 0..(NEntries - 1) : LabelNavigate(index)

SpecLabel == LabelInit /\ [][LabelNext]_vars

\* ------------------------------------------------------------ matcher.py

\* The target viewer followed in the match window (0-based): the last one.
ObservedTarget == NTargets - 1

\* The start index without the clamp to the last index.
Matcher_get_start_index__unclamped(a) ==
    LET is_annotated == [k \in DOMAIN a |-> Len(a[k][5]) + Len(a[k][4]) > 0]
    IN  IF ~(\E k \in DOMAIN a : is_annotated[k]) THEN 0
        ELSE CHOOSE k \in DOMAIN a :
                /\ is_annotated[k]
                /\ \A j \in DOMAIN a : is_annotated[j] => j <= k

\* MainWindow.get_start_index of matcher.py
Matcher_get_start_index(a) ==
    LET is_annotated == [k \in DOMAIN a |-> Len(a[k][5]) + Len(a[k][4]) > 0]
    IN  IF ~(\E k \in DOMAIN a : is_annotated[k]) THEN 0
        ELSE LET index == CHOOSE k \in DOMAIN a :
                             /\ is_annotated[k]
                             /\ \A j \in DOMAIN a : is_annotated[j] => j <= k
             IN  IF index <= Len(a) - 1 THEN index ELSE Len(a) - 1

\* MainWindow.update_target_colors: the colour of every target viewer, for the
\* entry at index
update_target_colors(a, index) ==
    LET similar_targets == a[index + 1][4]
        dissimilar_targets == a[index + 1][5]
    IN  [i \in 0..(NTargets - 1) |->
            IF In(i, similar_targets) THEN "SIMILAR_COLOR"
            ELSE IF In(i, dissimilar_targets) THEN "DISSIMILAR_COLOR"
            ELSE "NEUTRAL_COLOR"]

\* The two lists classify_target_video stores for a click on target_ix
classify(similar_targets, dissimilar_targets, left_click, target_ix) ==
    IF left_click
    THEN IF In(target_ix, similar_targets)
         THEN <<safe_remove(similar_targets, target_ix), dissimilar_targets>>
         ELSE <<safe_add(similar_targets, target_ix),
                safe_remove(dissimilar_targets, target_ix)>>
    ELSE IF In(target_ix, dissimilar_targets)
         THEN <<similar_targets, safe_remove(dissimilar_targets, target_ix)>>
         ELSE <<safe_remove(similar_targets, target_ix),
                safe_add(dissimilar_targets, target_ix)>>

\* What a handler of the match window leaves alone besides the document.
MatchFrame ==
    /\ UNCHANGED <<label_options_box, current_labels_box, metadata_box>>
    /\ UNCHANGED <<diskVars, mode, call, since, burst, navs>>

\* A classification that also empties the two lists of every other entry.
classified__others_cleared(a, index, left_click, target_ix) ==
    LET e == a[index + 1]
        new == classify(e[4], e[5], left_click, target_ix)
    IN  [k \in DOMAIN a |->
            IF k = index + 1 THEN <<e[1], e[2], e[3], new[1], new[2]>>
            ELSE <<a[k][1], a[k][2], a[k][3], <<>>, <<>>>>]

\* The document classify_target_video stores for a click on target_ix
classified(a, index, left_click, target_ix) ==
    LET e == a[index + 1]
        new == classify(e[4], e[5], left_click, target_ix)
    IN  [a EXCEPT ![index + 1] = <<e[1], e[2], e[3], new[1], new[2]>>]

\* A classify_target_video that also writes the file.
classify_target_video__autosave(left_click, target_ix) ==
    /\ Dispatch /\ mode = "match"
    /\ ops < MaxClassify
    /\ annotations' = classified(annotations, current_index, left_click, target_ix)
    /\ unsaved_changes' = TRUE
    /\ background' = update_target_colors(annotations', current_index)
    /\ ops' = ops + 1
    /\ last' = <<"classify_target_video">>
    /\ file' = annotations'
    /\ UNCHANGED <<current_index, window, index_label>>
    /\ UNCHANGED viewerVars
    /\ MatchFrame

\* MainWindow.classify_target_video: a click on target viewer target_ix
classify_target_video(left_click, target_ix) ==
    /\ Dispatch /\ mode = "match"
    /\ ops < MaxClassify
    /\ annotations' = classified(annotations, current_index, left_click, target_ix)
    /\ unsaved_changes' = TRUE
    /\ background' = update_target_colors(annotations', current_index)
    /\ ops' = ops + 1
    /\ last' = <<"classify_target_video">>
    /\ UNCHANGED <<file, current_index, window, index_label>>
    /\ UNCHANGED viewerVars
    /\ MatchFrame

\* A save_annotations that clears the flag before it writes.
Matcher_save_annotations__flag_first ==
    /\ IF writable THEN file' = json_dump(annotations) ELSE file' \in FailedWrite
    /\ unsaved_changes' = FALSE

\* MainWindow.save_annotations of matcher.py (the Save button): the OSError of a
\* failing save leaves the method before the flag is cleared
Matcher_save_annotations ==
    IF writable
    THEN /\ file' = json_dump(annotations)
         /\ unsaved_changes' = FALSE
    ELSE /\ file' \in FailedWrite
         /\ UNCHANGED unsaved_changes

save_clicked ==
    /\ Dispatch /\ mode = "match"
    /\ Matcher_save_annotations
    /\ last' = <<"save_annotations">>
    /\ UNCHANGED <<annotations, current_index, window, index_label, background, ops>>
    /\ UNCHANGED viewerVars
    /\ MatchFrame

\* The answers of the question closeEvent asks.
Replies == {"Save", "Discard", "Cancel"}

\* A closeEvent whose Save answer closes without saving.
closeEvent__save_forgotten(reply) ==
    /\ Dispatch /\ mode = "match"
    /\ IF unsaved_changes
       THEN /\ reply \in Replies
            /\ IF reply \in {"Save", "Discard"}
               THEN window' = "closed" /\ UNCHANGED <<file, unsaved_changes>>
               ELSE UNCHANGED <<file, unsaved_changes, window>>
       ELSE /\ reply = "none"
            /\ window' = "closed"
            /\ UNCHANGED <<file, unsaved_changes>>
    /\ last' = <<"closeEvent", reply>>
    /\ UNCHANGED <<annotations, current_index, index_label, background, ops>>
    /\ UNCHANGED viewerVars
    /\ UNCHANGED <<label_options_box, current_labels_box, metadata_box>>
    /\ UNCHANGED <<diskVars, mode, call, since, burst, navs>>

\* MainWindow.closeEvent: reply is the answer to the question, "none" when no
\* question is asked.  A close event is accepted unless ignore() is called, so
\* the window also closes when the save of the Save answer raises.
closeEvent(reply) ==
    /\ Dispatch /\ mode = "match"
    /\ IF unsaved_changes
       THEN /\ reply \in Replies
            /\ IF reply = "Save"
               THEN Matcher_save_annotations /\ window' = "closed"
               ELSE IF reply = "Discard"
               THEN window' = "closed" /\ UNCHANGED <<file, unsaved_changes>>
               ELSE UNCHANGED <<file, unsaved_changes, window>>
       ELSE /\ reply = "none"
            /\ window' = "closed"
            /\ UNCHANGED <<file, unsaved_changes>>
    /\ last' = <<"closeEvent", reply>>
    /\ UNCHANGED <<annotations, current_index, index_label, background, ops>>
    /\ UNCHANGED viewerVars
    /\ MatchFrame

\* MainWindow.set_current_index of matcher.py from the line after the loop of
\* clear_video calls
Matcher_show(index) ==
    /\ current_index' = index
    /\ index_label' = index
    /\ background' = update_target_colors(annotations, index)
    /\ LET target_clips == annotations[index + 1][2]
           target_metadata == annotations[index + 1][3]
           i == ObservedTarget
           cleared == clear_video(video_player)
       IN  video_player' =
              IF i < Len(target_clips)
              THEN set_metadata(load_video(cleared, target_clips[i + 1]),
                                target_metadata[i + 1])
              ELSE cleared
    /\ last' = <<"set_current_index">>
    /\ UNCHANGED <<annotations, file, window, unsaved_changes, ops>>
    /\ UNCHANGED <<label_options_box, current_labels_box, metadata_box, diskVars, mode, call>>

\* MainWindow.set_current_index of matcher.py: clear_video of the viewer waits
\* for its running worker, and the handler goes on when the worker has ended.
\* Its effect on history is stated by the caller.
Matcher_set_current_index(index) ==
    /\ Dispatch /\ mode = "match"
    /\ index \in 0..(Len(annotations) - 1) /\ index # current_index
    /\ IF isRunning(video_player)
       THEN /\ threads' = [threads EXCEPT ![video_player.video_loader].intr = TRUE]
            /\ main_pc' = [at |-> "clear_video", index |-> index]
            /\ last' = <<"set_current_index">>
            /\ UNCHANGED <<windowVars, video_player, events, debounce_timer, diskVars, mode, call, ops>>
       ELSE /\ Matcher_show(index)
            /\ UNCHANGED <<threads, events, main_pc, debounce_timer>>

\* ------------------------------------------------------------ match documents

\* Entry i (0-based) of a match document has a clip for every target viewer,
\* except the last entry, which has none for the last viewer.
TargetCount(n, i) == IF i = n - 1 THEN NTargets - 1 ELSE NTargets

\* Entry i of a match document of n entries, with its two lists.
MatchEntry(n, i, similar, dissimilar) ==
    <<Clip(i),
      [j \in 1..TargetCount(n, i) |-> Clip((i + j - 1) % n)],
      [j \in 1..TargetCount(n, i) |-> <<"target", i, j - 1>>],
      similar, dissimilar>>

\* The lists of target indices a loaded entry holds: at most one index each.
IndexLists == {<<>>} \cup {<<t>> : t \in 0..(NTargets - 1)}

\* The match documents that are loaded: no entry is classified, or one entry
\* holds any two of the lists (load_annotations checks the paths only).
MatchFiles ==
    {[k \in 1..NMatchEntries |->
         MatchEntry(NMatchEntries, k - 1,
                    IF k = c THEN s ELSE <<>>, IF k = c THEN d ELSE <<>>)] :
        c \in 1..NMatchEntries, s \in IndexLists, d \in IndexLists}

\* The match document of n entries with no entry classified.
UnclassifiedMatchFile(n) == [k \in 1..n |-> MatchEntry(n, k - 1, <<>>, <<>>)]

\* MainWindow.__init__ of matcher.py, whose set_current_index raises for an index
\* that is not one of the document
MatchWindow(f) ==
    /\ mode = "match"
    /\ file = f
    /\ annotations = file
    /\ LET start == Matcher_get_start_index(annotations)
           i == ObservedTarget
       IN  /\ current_index = start
           /\ index_label = start
           /\ IF start < Len(annotations)
              THEN /\ window = "open"
                   /\ background = update_target_colors(annotations, start)
                   /\ LET target_clips == annotations[start + 1][2]
                          target_metadata == annotations[start + 1][3]
                      IN  video_player =
                             IF i < Len(target_clips)
                             THEN set_metadata(load_video(clear_video(NewVideoPlayer),
                                                          target_clips[i + 1]),
                                               target_metadata[i + 1])
                             ELSE clear_video(NewVideoPlayer)
              ELSE /\ window = "failed"
                   /\ background = <<>>
                   /\ video_player = clear_video(NewVideoPlayer)
    /\ unsaved_changes = FALSE
    /\ label_options_box = <<>> /\ current_labels_box = <<>> /\ metadata_box = None
    /\ threads = [t \in 1..NThreads |-> NoThread]
    /\ events = <<>>
    /\ main_pc = [at |-> "idle", index |-> None]
    /\ debounce_timer = [active |-> FALSE, left |-> 0]
    /\ last = <<"__init__">>
    /\ call = None
    /\ disk = {Path} /\ dialog = None /\ entry_type = "list"
    /\ since = 0 /\ burst = [n |-> 1, loads |-> 0] /\ navs = 0 /\ ops = 0

MatchInit == writable = TRUE /\ \E f \in MatchFiles : MatchWindow(f)

MatchNavigate(index) ==
    /\ Matcher_set_current_index(index)
    /\ UNCHANGED <<since, burst, navs>>

MatchNext ==
    \/ \E left_click \in BOOLEAN, target_ix \in 0..(NTargets - 1) :
          classify_target_video(left_click, target_ix)
    \/ save_clicked
    \/ \E reply \in Replies \cup {"none"} : closeEvent(reply)
    \/ \E index \in 0..(NMatchEntries - 1) : MatchNavigate(index)

SpecMatch == MatchInit /\ [][MatchNext]_vars

\* The documents of both windows, each in its own run.
DocInit == LabelInit \/ MatchInit
DocNext == LabelNext \/ MatchNext
SpecDoc == DocInit /\ [][DocNext]_vars

\* The documents the failing saves are followed on: no labels, no classifications.
FailLabelFile == [k \in 1..NEntries |-> <<Path, ClipStart(k - 1), ClipEnd(k - 1), <<>>>>]
FailMatchFile == UnclassifiedMatchFile(NMatchEntries)

\* The documents of both windows on a file that cannot be written (its
\* permissions, a full disk).
FailInit ==
    /\ writable = FALSE
    /\ LabelWindow(FailLabelFile) \/ MatchWindow(FailMatchFile)

SpecFail == FailInit /\ [][DocNext]_vars

\* ------------------------------------------------------------ the viewer at work

\* VideoLoaderThread.__init__ and start()
NewThread(video_info) ==
    [st |-> "running", video_info |-> video_info,
     pc |-> IF video_info[2] < video_info[3] THEN "check" ELSE "emit",
     frame |-> video_info[2], video_array |-> <<>>, intr |-> FALSE,
     emitted |-> FALSE]

\* What is kept of a thread that has ended.
Ended(th, emitted) ==
    [NoThread EXCEPT !.st = "finished", !.intr = th.intr, !.emitted = emitted]

\* The slot of the next thread object: not the one self.video_loader holds.
FreeSlots == {t \in 1..NThreads : t # video_player.video_loader /\ threads[t].st # "running"}

\* VideoPlayer._load from the line after wait(): a new thread is started
start_loader ==
    /\ FreeSlots # {}
    /\ LET t == CHOOSE x \in FreeSlots : \A y \in FreeSlots : x <= y
       IN  /\ threads' = [threads EXCEPT ![t] = NewThread(video_player.video_info)]
           /\ video_player' = [video_player EXCEPT
                                  !.video_loader = t,
                                  !.debounce_timer = [active |-> FALSE, left |-> 0]]
    /\ burst' = [burst EXCEPT !.loads = @ + 1]

\* The handlers of the viewer leave the window alone.
ViewerFrame == UNCHANGED <<windowVars, debounce_timer, diskVars, mode, call, since, navs, ops>>

\* A _load that requests the interruption and does not wait for the thread.
_load__no_wait ==
    /\ Dispatch
    /\ video_player.debounce_timer.active /\ video_player.debounce_timer.left = 0
    /\ FreeSlots # {}
    /\ LET t == CHOOSE x \in FreeSlots : \A y \in FreeSlots : x <= y
           old == video_player.video_loader
       IN  /\ threads' = [u \in 1..NThreads |->
                             IF u = t THEN NewThread(video_player.video_info)
                             ELSE IF u = old /\ threads[u].st = "running"
                             THEN [threads[u] EXCEPT !.intr = TRUE]
                             ELSE threads[u]]
           /\ video_player' = [video_player EXCEPT
                                  !.video_loader = t,
                                  !.debounce_timer = [active |-> FALSE, left |-> 0]]
    /\ burst' = [burst EXCEPT !.loads = @ + 1]
    /\ last' = <<"_load">>
    /\ UNCHANGED <<events, main_pc>>
    /\ ViewerFrame

\* The single-shot debounce timer fires: VideoPlayer._load up to wait()
_load ==
    /\ Dispatch
    /\ video_player.debounce_timer.active /\ video_player.debounce_timer.left = 0
    /\ last' = <<"_load">>
    /\ IF isRunning(video_player)
       THEN /\ threads' = [threads EXCEPT ![video_player.video_loader].intr = TRUE]
            /\ video_player' = [video_player EXCEPT
                                   !.debounce_timer = [active |-> FALSE, left |-> 0]]
            /\ main_pc' = [at |-> "_load", index |-> None]
            /\ UNCHANGED burst
       ELSE /\ start_loader
            /\ UNCHANGED main_pc
    /\ UNCHANGED events
    /\ ViewerFrame

\* wait() of _load returns
_load_resume ==
    /\ main_pc.at = "_load" /\ ~isRunning(video_player)
    /\ main_pc' = [at |-> "idle", index |-> None]
    /\ start_loader
    /\ last' = <<"_load">>
    /\ UNCHANGED events
    /\ ViewerFrame

\* VideoLoaderThread.run: the test of isInterruptionRequested()
run_check(t) ==
    /\ threads[t].st = "running" /\ threads[t].pc = "check"
    /\ threads' = [threads EXCEPT ![t] =
                      IF threads[t].intr THEN Ended(threads[t], FALSE)
                      ELSE [threads[t] EXCEPT !.pc = "read"]]
    /\ UNCHANGED <<video_player, events, main_pc, last, burst>>
    /\ ViewerFrame

\* VideoLoaderThread.run: video_array.append(reader[frame]) and the step of the loop
run_read(t) ==
    /\ threads[t].st = "running" /\ threads[t].pc = "read"
    /\ threads' = [threads EXCEPT ![t] =
                      [threads[t] EXCEPT
                          !.video_array = Append(@, threads[t].frame),
                          !.frame = @ + 1,
                          !.pc = IF threads[t].frame + 1 < threads[t].video_info[3]
                                 THEN "check" ELSE "emit"]]
    /\ UNCHANGED <<video_player, events, main_pc, last, burst>>
    /\ ViewerFrame

\* A run whose emission overtakes the emissions that are still queued.
run_emit__overtakes(t) ==
    /\ threads[t].st = "running" /\ threads[t].pc = "emit"
    /\ events' = <<threads[t].video_array>> \o events
    /\ threads' = [threads EXCEPT ![t] = Ended(threads[t], TRUE)]
    /\ UNCHANGED <<video_player, main_pc, last, burst>>
    /\ ViewerFrame

\* VideoLoaderThread.run: self.video_loaded.emit(video_array), queued for the
\* thread of the viewer, and the end of the thread
run_emit(t) ==
    /\ threads[t].st = "running" /\ threads[t].pc = "emit"
    /\ events' = Append(events, threads[t].video_array)
    /\ threads' = [threads EXCEPT ![t] = Ended(threads[t], TRUE)]
    /\ UNCHANGED <<video_player, main_pc, last, burst>>
    /\ ViewerFrame

\* The event loop delivers a queued video_loaded to VideoPlayer.play_video
video_loaded ==
    /\ Dispatch
    /\ events # <<>>
    /\ events' = Tail(events)
    /\ video_player' = play_video(video_player, Head(events))
    /\ last' = <<"play_video">>
    /\ UNCHANGED <<threads, main_pc, burst>>
    /\ ViewerFrame

\* The frame timer fires: VideoPlayer.update_frame.  last keeps whether a frame
\* was drawn (the frame is then video_label).
frame_timeout ==
    /\ Dispatch
    /\ video_player.frame_timer
    /\ video_player' = update_frame(video_player)
    /\ last' = <<"update_frame", video_player.video_array # None>>
    /\ UNCHANGED <<threads, events, main_pc, burst>>
    /\ ViewerFrame

\* wait() of clear_video returns, in set_current_index of matcher.py
Matcher_set_current_index_resume ==
    /\ main_pc.at = "clear_video" /\ ~isRunning(video_player)
    /\ Matcher_show(main_pc.index)
    /\ main_pc' = [at |-> "idle", index |-> None]
    /\ UNCHANGED <<threads, events, debounce_timer>>
    /\ UNCHANGED <<since, burst, navs>>

\* ------------------------------------------------------------ main.py

RECURSIVE reader(_, _)
\* reader[start:end] of OpenCVReader: the frames of the clip, in order
reader(start, end) ==
    IF start >= end THEN <<>> ELSE <<start>> \o reader(start + 1, end)

\* The decoded clip video_info.
decode(video_info) == reader(video_info[2], video_info[3])

\* MainWindow.__init__ of main.py, whose last step is set_current_clip
MainWindow(f) ==
    /\ mode = "main"
    /\ file = f
    /\ annotations = file
    /\ LET start == Main_get_start_index(annotations)
       IN  /\ current_index = start
           /\ IF start < Len(annotations)
              THEN /\ window = "open"
                   /\ LET e == annotations[start + 1]
                      IN  /\ metadata_box = <<start, e[1], e[2], e[3]>>
                          /\ current_labels_box = e[4]
                   /\ debounce_timer = [active |-> TRUE, left |-> DebounceMs]
              ELSE /\ window = "failed"
                   /\ metadata_box = None
                   /\ current_labels_box = <<>>
                   /\ debounce_timer = [active |-> FALSE, left |-> 0]
    /\ video_player = NewVideoPlayer
    /\ label_options_box = get_unique_labels(annotations)
    /\ unsaved_changes = FALSE /\ index_label = None /\ background = <<>>
    /\ threads = [t \in 1..NThreads |-> NoThread]
    /\ events = <<>>
    /\ main_pc = [at |-> "idle", index |-> None]
    /\ last = <<"__init__">>
    /\ call = None
    /\ disk = {Path} /\ dialog = None /\ entry_type = "list"
    /\ since = 0 /\ burst = [n |-> 1, loads |-> 0] /\ navs = 0 /\ ops = 0

\* MainWindow.set_current_clip of main.py (the scrollbar's valueChanged).  Its
\* effect on history is stated by the caller.
set_current_clip(index) ==
    /\ Dispatch /\ mode = "main"
    /\ index \in 0..(Len(annotations) - 1) /\ index # current_index
    /\ current_index' = index
    /\ LET e == annotations[index + 1]
       IN  /\ metadata_box' = <<index, e[1], e[2], e[3]>>
           /\ current_labels_box' = e[4]
    /\ debounce_timer' = [active |-> TRUE, left |-> DebounceMs]
    /\ last' = <<"set_current_clip">>
    /\ UNCHANGED <<annotations, file, window, label_options_box, unsaved_changes,
                   index_label, background>>
    /\ UNCHANGED <<video_player, threads, events, main_pc>>
    /\ UNCHANGED <<diskVars, mode, call, ops>>

\* The debounce timer of the window fires: MainWindow.load_video of main.py, for
\* a video file that exists.  The clip is decoded in the handler.
Main_load_video ==
    /\ Dispatch /\ mode = "main"
    /\ debounce_timer.active /\ debounce_timer.left = 0
    /\ debounce_timer' = [active |-> FALSE, left |-> 0]
    /\ LET e == annotations[current_index + 1]
           video_array == decode(<<e[1], e[2], e[3]>>)
       IN  video_player' = play_video(video_player, video_array)
    /\ burst' = [burst EXCEPT !.loads = @ + 1]
    /\ last' = <<"load_video">>
    /\ UNCHANGED <<windowVars, threads, events, main_pc, diskVars, mode, call, since, navs, ops>>

\* ------------------------------------------------------------ the clock and the runs

\* A single-shot timer after TickMs milliseconds.
Elapse(timer) ==
    IF timer.active
    THEN [timer EXCEPT !.left = IF @ > TickMs THEN @ - TickMs ELSE 0]
    ELSE timer

\* TickMs milliseconds pass.
Tick ==
    /\ \/ since < DebounceMs
       \/ video_player.debounce_timer.active /\ video_player.debounce_timer.left > 0
       \/ debounce_timer.active /\ debounce_timer.left > 0
    /\ since' = IF since + TickMs < DebounceMs THEN since + TickMs ELSE DebounceMs
    /\ video_player' = [video_player EXCEPT !.debounce_timer = Elapse(@)]
    /\ debounce_timer' = Elapse(debounce_timer)
    /\ UNCHANGED <<windowVars, threads, events, main_pc, diskVars, mode, call, last, burst, navs, ops>>

\* An index change counts into the burst when it follows the last one within the
\* debounce interval; else it begins a burst.
NextBurst ==
    IF since < DebounceMs /\ burst.n > 0 THEN [burst EXCEPT !.n = @ + 1]
    ELSE [n |-> 1, loads |-> 0]

\* An index change of the label window (scrollbar or keys).
PlayerLabelNavigate(index) ==
    /\ navs < MaxNav
    /\ Labeler_set_current_index(index)
    /\ since' = 0 /\ navs' = navs + 1
    /\ burst' = NextBurst

\* An index change of the match window (scrollbar or keys).
PlayerMatchNavigate(index) ==
    /\ navs < MaxNav
    /\ Matcher_set_current_index(index)
    /\ since' = 0 /\ navs' = navs + 1
    /\ burst' = NextBurst

\* An index change of the window of main.py (scrollbar or keys).
PlayerMainNavigate(index) ==
    /\ navs < MaxNav
    /\ set_current_clip(index)
    /\ since' = 0 /\ navs' = navs + 1
    /\ burst' = NextBurst

\* The documents the viewer is followed on: no labels, no classifications.  The
\* last entry of the match document has no clip for the viewer.
PlayerLabelFile == [k \in 1..NEntries |-> <<Path, ClipStart(k - 1), ClipEnd(k - 1), <<>>>>]
PlayerMatchFile == UnclassifiedMatchFile(NMatchEntries)

PlayerInit ==
    \/ writable = TRUE /\ LabelWindow(PlayerLabelFile)
    \/ writable = TRUE /\ MatchWindow(PlayerMatchFile)
    \/ writable = TRUE /\ MainWindow(PlayerLabelFile)

PlayerNext ==
    \/ \E index \in 0..(NEntries - 1) : PlayerLabelNavigate(index)
    \/ \E index \in 0..(NMatchEntries - 1) : PlayerMatchNavigate(index)
    \/ \E index \in 0..(NEntries - 1) : PlayerMainNavigate(index)
    \/ Matcher_set_current_index_resume
    \/ Main_load_video
    \/ Tick
    \/ _load
    \/ _load_resume
    \/ \E t \in 1..NThreads : run_check(t)
    \/ \E t \in 1..NThreads : run_read(t)
    \/ \E t \in 1..NThreads : run_emit(t)
    \/ video_loaded
    \/ frame_timeout

SpecPlayer == PlayerInit /\ [][PlayerNext]_vars

\* The scheduling of SpecPlayer: time passes, the event loop handles every timer
\* and every queued signal it has, wait() returns once the thread has ended, and
\* every started thread runs on.  Nothing makes the user change the index.  The
\* subscript of each condition is a part of the state that every step of the
\* action changes, so each condition is weak fairness of the action itself.
PlayerFairness ==
    /\ WF_<<since, video_player.debounce_timer, debounce_timer>>(Tick)
    /\ WF_<<video_player.debounce_timer>>(_load)
    /\ WF_<<main_pc.at>>(_load_resume)
    /\ WF_<<main_pc.at>>(Matcher_set_current_index_resume)
    /\ WF_<<debounce_timer>>(Main_load_video)
    /\ WF_<<Len(events)>>(video_loaded)
    /\ \A t \in 1..NThreads :
          /\ WF_<<threads[t].st, threads[t].pc>>(run_check(t))
          /\ WF_<<threads[t].frame>>(run_read(t))
          /\ WF_<<threads[t].st>>(run_emit(t))

SpecPlayerFair == SpecPlayer /\ PlayerFairness

\* ------------------------------------------------------------ the helpers on their own

\* safe_add_label of main.py
safe_add_label(existing_labels, new_label) ==
    IF ~In(new_label, existing_labels)
    THEN sorted(Append(existing_labels, new_label))
    ELSE existing_labels

RECURSIVE remove_first(_, _)
\* Python's list.remove on a copy: items without the first occurrence of item
remove_first(items, item) ==
    IF items = <<>> THEN <<>>
    ELSE IF Head(items) = item THEN Tail(items)
    ELSE <<Head(items)>> \o remove_first(Tail(items), item)

\* A safe_remove_label that takes out one occurrence of the label only.
safe_remove_label__first(existing_labels, label_to_remove) ==
    sorted(remove_first(existing_labels, label_to_remove))

\* safe_remove_label of main.py
safe_remove_label(existing_labels, label_to_remove) ==
    IF In(label_to_remove, existing_labels)
    THEN sorted(SelectSeq(existing_labels, LAMBDA label : label # label_to_remove))
    ELSE existing_labels

\* safe_edit_label of main.py
safe_edit_label(labels, old_label, new_label) ==
    sorted([k \in DOMAIN labels |->
               IF labels[k] = old_label THEN new_label ELSE labels[k]])

\* The helper functions of utils.py and of main.py, by name.
Helpers ==
    {"safe_add", "safe_remove", "safe_substitute",
     "safe_add_label", "safe_remove_label", "safe_edit_label"}

\* What helper op returns for items and the arguments args.
Apply(op, items, args) ==
    CASE op = "safe_add" -> safe_add(items, args[1])
      [] op = "safe_remove" -> safe_remove(items, args[1])
      [] op = "safe_substitute" -> safe_substitute(items, args[1], args[2])
      [] op = "safe_add_label" -> safe_add_label(items, args[1])
      [] op = "safe_remove_label" -> safe_remove_label(items, args[1])
      [] op = "safe_edit_label" -> safe_edit_label(items, args[1], args[2])

\* The labels the helpers are called with: one more than the windows use, so
\* that a list out of order can lack a label.
HelperLabels == 0..(MaxLabel + 1)

\* The arguments helper op takes besides the list.
Args(op) ==
    IF op \in {"safe_substitute", "safe_edit_label"}
    THEN {<<old, new>> : old \in HelperLabels, new \in HelperLabels}
    ELSE {<<x>> : x \in HelperLabels}

RECURSIVE Lists(_)
\* The lists of labels of length n, in any order and with repetitions.
Lists(n) ==
    IF n = 0 THEN {<<>>}
    ELSE {Append(l, x) : l \in Lists(n - 1), x \in HelperLabels}

\* The lists a helper is first called on: any list of at most MaxLen labels.
InputLists == UNION {Lists(n) : n \in 0..MaxLen}

\* No window is open: the helpers are called on their own.
HelperInit ==
    /\ mode = "helpers"
    /\ \E items \in InputLists :
          call = [op |-> "input", items |-> items, args |-> <<>>, result |-> items]
    /\ annotations = <<>> /\ file = <<>> /\ current_index = 0 /\ window = "none"
    /\ label_options_box = <<>> /\ current_labels_box = <<>> /\ metadata_box = None
    /\ unsaved_changes = FALSE /\ index_label = None /\ background = <<>>
    /\ video_player = NewVideoPlayer
    /\ threads = [t \in 1..NThreads |-> NoThread]
    /\ events = <<>>
    /\ main_pc = [at |-> "idle", index |-> None]
    /\ debounce_timer = [active |-> FALSE, left |-> 0]
    /\ last = <<"none">>
    /\ disk = {} /\ dialog = None /\ writable = TRUE /\ entry_type = "list"
    /\ since = 0 /\ burst = [n |-> 0, loads |-> 0] /\ navs = 0 /\ ops = 0

\* Helper op is called on the result of the call before, with arguments args
\* (as long as the lists stay within MaxLen + 1 labels).
HelperCall(op, args) ==
    /\ mode = "helpers"
    /\ Len(Apply(op, call.result, args)) <= MaxLen + 1
    /\ call' = [op |-> op, items |-> call.result, args |-> args,
                result |-> Apply(op, call.result, args)]
    /\ UNCHANGED <<windowVars, video_player, threads, events, main_pc, debounce_timer>>
    /\ UNCHANGED <<diskVars, mode, last, since, burst, navs, ops>>

HelperNext == \E op \in Helpers : \E args \in Args(op) : HelperCall(op, args)

SpecHelpers == HelperInit /\ [][HelperNext]_vars

\* ------------------------------------------------------------ main.py: the document

\* save_annotations of main.py
Main_save_annotations(a) ==
    IF writable THEN file' = json_dump(a) ELSE file' \in FailedWrite

\* MainWindow.update_annotations of main.py
Main_update_annotations(a) ==
    /\ label_options_box' = get_unique_labels(a)
    /\ current_labels_box' = a[current_index + 1][4]
    /\ Main_save_annotations(a)

\* What a handler of the window of main.py leaves alone besides the document.
MainFrame ==
    /\ UNCHANGED <<current_index, window, metadata_box, unsaved_changes,
                   index_label, background>>
    /\ UNCHANGED viewerVars
    /\ UNCHANGED <<disk, dialog, writable, mode, call, since, burst, navs, ops>>

\* A handler that raised before it changed anything.
Raised == UNCHANGED <<annotations, file, label_options_box, current_labels_box>>

\* MainWindow.add_label of main.py.  The assignment to item 3 of the entry raises
\* TypeError when the entry is a tuple, and the handler ends there.
Main_add_label(label) ==
    /\ Dispatch /\ mode = "main"
    /\ LET current_labels == annotations[current_index + 1][4]
       IN  /\ In(label, current_labels) \/ Len(current_labels) < MaxLen
           /\ IF entry_type = "list"
              THEN /\ annotations' = [annotations EXCEPT ![current_index + 1][4] =
                                         safe_add_label(current_labels, label)]
                   /\ Main_update_annotations(annotations')
                   /\ last' = <<"add_label", "returned">>
              ELSE /\ Raised
                   /\ last' = <<"add_label", "TypeError">>
    /\ UNCHANGED entry_type
    /\ MainFrame

\* MainWindow.remove_label of main.py: the label of a button of the current
\* labels box
Main_remove_label(label) ==
    /\ Dispatch /\ mode = "main"
    /\ In(label, current_labels_box)
    /\ LET current_labels == annotations[current_index + 1][4]
       IN  IF entry_type = "list"
           THEN /\ annotations' = [annotations EXCEPT ![current_index + 1][4] =
                                      safe_remove_label(current_labels, label)]
                /\ Main_update_annotations(annotations')
                /\ last' = <<"remove_label", "returned">>
           ELSE /\ Raised
                /\ last' = <<"remove_label", "TypeError">>
    /\ UNCHANGED entry_type
    /\ MainFrame

\* MainWindow.delete_label of main.py: the label of a button of the label options
\* box, and the answer to the question.  The entries are built anew as tuples.
Main_delete_label(label, reply) ==
    /\ Dispatch /\ mode = "main"
    /\ In(label, label_options_box)
    /\ IF reply = "Yes"
       THEN /\ annotations' =
                  [k \in DOMAIN annotations |->
                      <<annotations[k][1], annotations[k][2], annotations[k][3],
                        safe_remove_label(annotations[k][4], label)>>]
            /\ entry_type' = "tuple"
            /\ Main_update_annotations(annotations')
       ELSE Raised /\ UNCHANGED entry_type
    /\ last' = <<"delete_label", reply>>
    /\ MainFrame

\* MainWindow.edit_label of main.py: the label of a button of the label options
\* box, and the text and the answer of the input dialog.  The entries are built
\* anew as tuples.
Main_edit_label(old_label, new_label, ok) ==
    /\ Dispatch /\ mode = "main"
    /\ In(old_label, label_options_box)
    /\ IF ok /\ truthy(new_label)
       THEN /\ annotations' =
                  [k \in DOMAIN annotations |->
                      <<annotations[k][1], annotations[k][2], annotations[k][3],
                        safe_edit_label(annotations[k][4], old_label, new_label)>>]
            /\ entry_type' = "tuple"
            /\ Main_update_annotations(annotations')
       ELSE Raised /\ UNCHANGED entry_type
    /\ last' = <<"edit_label", ok /\ truthy(new_label)>>
    /\ MainFrame

\* An index change of the window of main.py, with the clock left out.
MainNavigate(index) ==
    /\ set_current_clip(index)
    /\ UNCHANGED <<since, burst, navs>>

MainInit == writable = TRUE /\ \E f \in LabelFiles : MainWindow(f)

MainNext ==
    \/ \E label \in Labels : Main_add_label(label)
    \/ \E label \in Labels : Main_remove_label(label)
    \/ \E label \in Labels, reply \in {"Yes", "No"} : Main_delete_label(label, reply)
    \/ \E old_label \in Labels, new_label \in Labels, ok \in BOOLEAN :
          Main_edit_label(old_label, new_label, ok)
    \/ \E index \in 0..(NEntries - 1) : MainNavigate(index)

SpecMain == MainInit /\ [][MainNext]_vars

\* ------------------------------------------------------------ opening a file

\* The video files a document being opened may name.
Paths == {"a.mp4", "b.mp4"}

\* The label documents that are opened: every entry names any of the paths.
LoadLabelFiles ==
    {[k \in 1..NEntries |-> <<pp[k], ClipStart(k - 1), ClipEnd(k - 1), ll[k]>>] :
        pp \in [1..NEntries -> Paths], ll \in [1..NEntries -> LabelLists]}

\* Match entry e with its query clip cut from query and its target clips from target.
Relocated(e, query, target) ==
    <<<<query, e[1][2], e[1][3]>>,
      [j \in 1..Len(e[2]) |-> <<target, e[2][j][2], e[2][j][3]>>],
      e[3], e[4], e[5]>>

\* The match documents that are opened: the query clip of every entry names any
\* of the paths, and so do its target clips.
LoadMatchFiles ==
    {[k \in 1..NMatchEntries |-> Relocated(f[k], qq[k], tt[k])] :
        f \in MatchFiles, qq \in [1..NMatchEntries -> Paths],
        tt \in [1..NMatchEntries -> Paths]}

\* A loader that reports the first of the missing paths only.
nonexistent_paths__first(all_paths) ==
    LET missing == {path \in all_paths : path \notin disk}
    IN  IF missing = {} THEN {}
        ELSE {CHOOSE path \in missing : TRUE}

\* [path for path in all_paths if not os.path.exists(path)]
nonexistent_paths(all_paths) == {path \in all_paths : path \notin disk}

\* set([path for path, _, _, _ in annotations])
Labeler_all_paths(a) == {a[k][1] : k \in DOMAIN a}

\* The paths of all_target_clips + all_query_clips
Matcher_all_paths(a) ==
    {a[k][1][1] : k \in DOMAIN a}
        \cup UNION {{a[k][2][j][1] : j \in DOMAIN a[k][2]} : k \in DOMAIN a}

\* What load_annotations leaves alone.
LoadFrame ==
    /\ UNCHANGED <<file, current_index, label_options_box, current_labels_box,
                   metadata_box, unsaved_changes, index_label, background>>
    /\ UNCHANGED <<viewerVars, disk, writable, entry_type, mode, call, since, burst, navs, ops>>

\* MainWindow.load_annotations of labeler.py, called by __init__: the dialog
\* lists the missing paths and sys.exit() ends the program, or the document is set
Labeler_load_annotations ==
    /\ mode = "load" /\ window = "none" /\ Len(file[1]) = 4
    /\ LET loaded == json_load(file)
           nonexitent_paths == nonexistent_paths(Labeler_all_paths(loaded))
       IN  IF nonexitent_paths # {}
           THEN /\ dialog' = nonexitent_paths
                /\ window' = "failed"
                /\ UNCHANGED annotations
           ELSE /\ annotations' = loaded
                /\ window' = "loaded"
                /\ UNCHANGED dialog
    /\ last' = <<"load_annotations">>
    /\ LoadFrame

\* MainWindow.load_annotations of matcher.py, called by __init__
Matcher_load_annotations ==
    /\ mode = "load" /\ window = "none" /\ Len(file[1]) = 5
    /\ LET loaded == json_load(file)
           nonexistent == nonexistent_paths(Matcher_all_paths(loaded))
       IN  IF nonexistent # {}
           THEN /\ dialog' = nonexistent
                /\ window' = "failed"
                /\ UNCHANGED annotations
           ELSE /\ annotations' = loaded
                /\ window' = "loaded"
                /\ UNCHANGED dialog
    /\ last' = <<"load_annotations">>
    /\ LoadFrame

\* save_annotations of the window whose document was loaded, nothing having
\* changed the document
LoadSave ==
    /\ mode = "load" /\ window = "loaded"
    /\ IF Len(annotations[1]) = 4
       THEN Labeler_save_annotations(annotations) /\ UNCHANGED unsaved_changes
       ELSE Matcher_save_annotations
    /\ last' = <<"save_annotations">>
    /\ UNCHANGED <<annotations, current_index, window, label_options_box,
                   current_labels_box, metadata_box, index_label, background>>
    /\ UNCHANGED <<viewerVars, diskVars, mode, call, since, burst, navs, ops>>

\* A file is about to be opened; any of the paths may be missing from the disk.
LoadInit ==
    /\ mode = "load"
    /\ file \in LoadLabelFiles \cup LoadMatchFiles
    /\ disk \in SUBSET Paths
    /\ dialog = None /\ writable = TRUE /\ entry_type = "list"
    /\ annotations = None /\ current_index = 0 /\ window = "none"
    /\ label_options_box = <<>> /\ current_labels_box = <<>> /\ metadata_box = None
    /\ unsaved_changes = FALSE /\ index_label = None /\ background = <<>>
    /\ video_player = NewVideoPlayer
    /\ threads = [t \in 1..NThreads |-> NoThread]
    /\ events = <<>>
    /\ main_pc = [at |-> "idle", index |-> None]
    /\ debounce_timer = [active |-> FALSE, left |-> 0]
    /\ last = <<"none">>
    /\ call = None
    /\ since = 0 /\ burst = [n |-> 0, loads |-> 0] /\ navs = 0 /\ ops = 0

LoadNext == Labeler_load_annotations \/ Matcher_load_annotations \/ LoadSave

SpecLoad == LoadInit /\ [][LoadNext]_vars

\* ------------------------------------------------------------ claims

\* The two lists of entry e share no index.
Disjoint(e) == ~(\E i \in DOMAIN e[4] : In(e[4][i], e[5]))

\* C1: match workflow: after every classify_target call on a loaded document, the
\* similar and the dissimilar list of every entry share no index.
C1_MutualExclusion ==
    last[1] = "classify_target_video" =>
        \A k \in DOMAIN annotations : Disjoint(annotations[k])

\* C2: label workflow: in every reachable state the labels of every entry are
\* strictly sorted, so without duplicates.
C2_LabelsStrictlySorted ==
    \A k \in DOMAIN annotations : StrictlySorted(annotations[k][4])

\* The clip the viewer shows for the entry at index.
ViewerClip(index) ==
    IF mode = "match"
    THEN annotations[index + 1][2][ObservedTarget + 1]
    ELSE <<annotations[index + 1][1], annotations[index + 1][2], annotations[index + 1][3]>>

\* The frames of the clip requested last: the clip load_video was last called
\* with, and in main.py the clip of the current index.
RequestedFrames ==
    LET video_info == IF mode = "main" THEN ViewerClip(current_index)
                      ELSE video_player.video_info
    IN  IF video_info = None THEN {} ELSE video_info[2]..(video_info[3] - 1)

\* C3: the viewer renders no frame of a superseded clip: a frame rendered by
\* update_frame is a frame of the clip requested last.
C3_NoSupersededFrame ==
    last = <<"update_frame", TRUE>> => video_player.video_label \in RequestedFrames

\* The entry at the current index has a clip for the viewer.
HasClip ==
    mode = "match" => ObservedTarget < Len(annotations[current_index + 1][2])

\* The debounce interval has passed since the last index change, no debounce
\* timer is pending and no handler is under way.
Quiet ==
    /\ since = DebounceMs
    /\ ~video_player.debounce_timer.active /\ ~debounce_timer.active
    /\ main_pc.at = "idle"

\* While a burst of index changes lasts no decode is started, at most one is
\* started after it, and the worker it starts decodes the clip of the final index.
OneDecodeOfFinalIndex ==
    /\ burst.loads <= 1
    /\ (video_player.debounce_timer.active \/ debounce_timer.active) => burst.loads = 0
    /\ (burst.loads = 1 /\ isRunning(video_player))
          => threads[video_player.video_loader].video_info = ViewerClip(current_index)
    /\ (burst.loads = 1 /\ mode = "main")
          => video_player.video_array = decode(ViewerClip(current_index))

\* C4 as stated: after a burst of index changes, each within the debounce interval
\* of the one before, and a quiet period, exactly one decode was started for the
\* viewer, whichever viewer it is, and it decodes the clip of the final index.
C4_OneDecodePerViewer ==
    /\ OneDecodeOfFinalIndex
    /\ Quiet => burst.loads = 1

\* C4: after a burst of index changes, each within the debounce interval of the
\* one before, and a quiet period, exactly one decode was started if the entry at
\* the final index has a clip for the viewer, and none if it has no clip (a target
\* viewer beyond the targets of the entry); the decode is of the clip of the final
\* index.
C4_Debounce ==
    /\ OneDecodeOfFinalIndex
    /\ Quiet => burst.loads = (IF HasClip THEN 1 ELSE 0)

\* C4 witness: three index changes in a burst, the quiet period, and the one
\* decode running.
C4_Witness ==
    /\ burst.n >= 3 /\ burst.loads = 1
    /\ Quiet /\ isRunning(video_player)

\* The threads that are running.
Running == {t \in 1..NThreads : threads[t].st = "running"}

\* C5: at most one decode worker of the viewer is running, and it is the one the
\* viewer holds (the one _load and clear_video interrupt and join).
C5_OneWorker ==
    /\ Cardinality(Running) <= 1
    /\ \A t \in Running : t = video_player.video_loader

\* C5 witness: a worker was interrupted and joined, and its successor is running.
C5_Witness ==
    \E t \in 1..NThreads, u \in 1..NThreads :
        /\ threads[t].st = "finished" /\ threads[t].intr
        /\ threads[u].st = "running" /\ video_player.video_loader = u

\* C6: a worker whose interruption was requested before it emitted video_loaded
\* never emits it.  (An interruption is requested of a running thread only, so a
\* thread that has both emitted and been interrupted was interrupted first.)
C6_CancelledNeverEmits ==
    \A t \in 1..NThreads : ~(threads[t].emitted /\ threads[t].intr)

\* The 0-based indices of the entries of a label document that have a label.
Labeled(a) == {k - 1 : k \in {j \in DOMAIN a : Len(a[j][4]) >= 1}}

\* C7: the resume index of a label document is 1 + the highest index of an entry
\* with a label, and 0 when no entry has one, in labeler.py and in main.py.
C7_LabelResumeIndex ==
    LET expected == IF Labeled(annotations) = {} THEN 0
                    ELSE 1 + CHOOSE i \in Labeled(annotations) :
                                \A j \in Labeled(annotations) : j <= i
    IN  /\ Labeler_get_start_index(annotations) = expected
        /\ Main_get_start_index(annotations) = expected

\* The 0-based indices of the entries of a match document that are classified.
Classified(a) == {k - 1 : k \in {j \in DOMAIN a : a[j][4] # <<>> \/ a[j][5] # <<>>}}

\* C8: the resume index of a match document is a valid index: 0 when no entry is
\* classified, else the index after the last classified entry, or the last index
\* when the last entry is classified.
C8_MatchResumeIndex ==
    LET r == Matcher_get_start_index(annotations)
        n == Len(annotations)
        c == Classified(annotations)
    IN  /\ r \in 0..(n - 1)
        /\ c = {} => r = 0
        /\ \A i \in c : (\A j \in c : j <= i) =>
              /\ i < n - 1 => r = i + 1
              /\ i = n - 1 => r = n - 1

\* C8 witness: a classification of the last entry, where the clamp decides.
C8_Witness ==
    /\ last[1] = "classify_target_video"
    /\ (Len(annotations) - 1) \in Classified(annotations)
    /\ Matcher_get_start_index(annotations) = Len(annotations) - 1

\* C9: label workflow: between two events the file holds the document in memory.
C9_FileIsDocument == file = annotations

\* C9 witness: an add that changed the document, and the file holds the change.
C9_Witness ==
    /\ last = <<"add_label", TRUE>>
    /\ file = annotations

C11_NoAutoSave ==
    [][/\ last'[1] \in {"classify_target_video", "set_current_index"} => file' = file
       /\ file' # file =>
             \/ last' = <<"save_annotations">>
             \/ last' = <<"closeEvent", "Save">>]_vars

\* C11 witness: a classification changed the document and the file still holds
\* the document as loaded.
C11_Witness ==
    /\ last = <<"classify_target_video">>
    /\ file # annotations /\ unsaved_changes

\* The two lists of the current entry after a click on target t.
Clicked(left_click, t) ==
    LET e == annotations[current_index + 1]
    IN  classify(e[4], e[5], left_click, t)

\* C12: a left click on target t of the current entry puts t into similar and out
\* of dissimilar when t was not in similar, and leaves t in neither list when t
\* was in similar; a right click does the same with the two lists exchanged.
C12_ClassifyTransition ==
    \A t \in 0..(NTargets - 1) :
        LET e == annotations[current_index + 1]
        IN  /\ ~In(t, e[4]) =>
                  In(t, Clicked(TRUE, t)[1]) /\ ~In(t, Clicked(TRUE, t)[2])
            /\ In(t, e[4]) =>
                  ~In(t, Clicked(TRUE, t)[1]) /\ ~In(t, Clicked(TRUE, t)[2])
            /\ ~In(t, e[5]) =>
                  In(t, Clicked(FALSE, t)[2]) /\ ~In(t, Clicked(FALSE, t)[1])
            /\ In(t, e[5]) =>
                  ~In(t, Clicked(FALSE, t)[2]) /\ ~In(t, Clicked(FALSE, t)[1])

\* The 0-based indices of the document.
Indices == 0..(Len(annotations) - 1)

\* Each label operation applied twice to the document gives what it gives
\* applied once.
LabelOpsIdempotent ==
    LET a == annotations
    IN  /\ \A i \in Indices, x \in Labels :
              /\ added(added(a, i, x), i, x) = added(a, i, x)
              /\ removed(removed(a, i, x), i, x) = removed(a, i, x)
        /\ \A x \in Labels : deleted(deleted(a, x), x) = deleted(a, x)
        /\ \A old \in Labels, new \in Labels \ {0} :
              renamed(renamed(a, old, new), old, new) = renamed(a, old, new)

\* C13 as stated: every operation on the document, the classification of a target
\* included, applied twice in succession gives what it gives applied once.
C13_AllIdempotent ==
    /\ mode = "label" => LabelOpsIdempotent
    /\ mode = "match" =>
          \A i \in Indices, left_click \in BOOLEAN, t \in 0..(NTargets - 1) :
              classified(classified(annotations, i, left_click, t), i, left_click, t)
                 = classified(annotations, i, left_click, t)

\* C13: add, remove, rename_everywhere and delete_everywhere applied twice in
\* succession give what they give applied once; the classification of a target is
\* a toggle and is not idempotent: the second click moves the target out of the
\* list the first click had put it in, or back into the list it had removed it from.
C13_IdempotentLabelOps ==
    /\ mode = "label" => LabelOpsIdempotent
    /\ mode = "match" =>
          \A i \in Indices, left_click \in BOOLEAN, t \in 0..(NTargets - 1) :
              LET once == classified(annotations, i, left_click, t)
                  twice == classified(once, i, left_click, t)
                  list == IF left_click THEN 4 ELSE 5
              IN  In(t, twice[i + 1][list]) # In(t, once[i + 1][list])

\* C13 witness: an add repeated on an entry that has the label, which changed
\* nothing.
C13_Witness ==
    /\ last = <<"add_label", FALSE>>
    /\ file = annotations
    /\ \E x \in Labels : In(x, annotations[current_index + 1][4])

\* C14: add and remove are idempotent, in utils.py and in main.py: the helper
\* called again with the same label on its result returns that result.
C14_AddRemoveIdempotent ==
    call.op \in {"safe_add", "safe_remove", "safe_add_label", "safe_remove_label"} =>
        Apply(call.op, call.result, call.args) = call.result

\* C14 witness: safe_remove_label took a label out of a list that had it twice.
C14_Witness ==
    /\ call.op = "safe_remove_label"
    /\ Len(call.items) >= Len(call.result) + 2
    /\ Apply(call.op, call.result, call.args) = call.result

\* How often v occurs in list s.
Count(s, v) == Cardinality({i \in DOMAIN s : s[i] = v})

\* List s is in ascending order (equal neighbours allowed).
Ascending(s) == \A i \in DOMAIN s : \A j \in DOMAIN s : i < j => s[i] <= s[j]

\* C15: safe_add returns the list as it is when it has the new label, and else
\* the list with the new label once more, in ascending order; the empty string
\* (label 0) is added like any other label.
C15_AddSorted ==
    call.op = "safe_add" =>
        LET new == call.args[1]
        IN  IF In(new, call.items) THEN call.result = call.items
            ELSE /\ Ascending(call.result)
                 /\ \A v \in HelperLabels :
                       Count(call.result, v)
                          = Count(call.items, v) + (IF v = new THEN 1 ELSE 0)

\* C15 witness: the empty string added to a list without it goes to the front.
C15_Witness ==
    /\ call.op = "safe_add" /\ call.args = <<0>>
    /\ call.items # <<>> /\ ~In(0, call.items)
    /\ call.result = <<0>> \o call.items

\* C16: safe_substitute and safe_edit_label return the list with new in place of
\* every occurrence of old, in ascending order, and return the list as it is
\* (same labels in the same order) when it has no old.
C16_Rename ==
    call.op \in {"safe_substitute", "safe_edit_label"} =>
        LET old == call.args[1]
            new == call.args[2]
        IN  /\ Ascending(call.result)
            /\ \A v \in HelperLabels :
                  Count(call.result, v) =
                     IF v = new /\ v # old THEN Count(call.items, new) + Count(call.items, old)
                     ELSE IF v = old /\ v # new THEN 0
                     ELSE Count(call.items, v)
            /\ ~In(old, call.items) => call.result = call.items

\* The paths the file names that the disk does not have.
Missing ==
    {path \in (IF Len(file[1]) = 4 THEN Labeler_all_paths(file)
                                   ELSE Matcher_all_paths(file)) : path \notin disk}

\* C17: once load_annotations has run on a file: if a path the file names does
\* not exist, the program has ended, the dialog lists every missing path and no
\* document was set; if every path exists, the document is the whole file.
C17_LoadValidation ==
    (mode = "load" /\ window # "none") =>
        IF Missing # {}
        THEN window = "failed" /\ dialog = Missing /\ annotations = None
        ELSE window = "loaded" /\ dialog = None /\ annotations = file

\* C17: a match file naming two missing paths was refused with both listed.
C17_Witness ==
    /\ mode = "load" /\ window = "failed" /\ Len(file[1]) = 5
    /\ disk = {} /\ dialog = Paths /\ annotations = None

C19_CancelBeforeRequest ==
    (mode \in {"label", "match"} /\ last = <<"set_current_index">> /\ main_pc.at = "idle")
        => Running = {}

\* C20: a viewer of the match window that was cleared and has had no load request
\* since (the entry shown has no clip for it) has no active frame timer, no
\* decoded clip, no pending debounce and no running worker.
C20_ClearedViewerIsStill ==
    (mode = "match" /\ window = "open" /\ main_pc.at = "idle" /\ ~HasClip) =>
        /\ ~video_player.frame_timer
        /\ video_player.video_array = None
        /\ ~video_player.debounce_timer.active
        /\ Running = {}

\* A step in which the frame timer drew a frame.
FrameDrawn ==
    /\ last' = <<"update_frame", TRUE>>
    /\ last' # last \/ video_player'.current_frame # video_player.current_frame

\* A step in which a decoded clip was delivered to the viewer.
ClipDelivered ==
    last' = <<"play_video">> /\ events # <<>> /\ events' = Tail(events)

\* C21: a tick draws the frame under the cursor and moves the cursor on by one,
\* back to 0 after the last frame; the delivery of a decoded clip makes it the
\* clip that is drawn and puts the cursor at 0, wherever it was.
C21_PlaybackOrder ==
    [][/\ FrameDrawn =>
            /\ video_player'.video_label = video_player.video_array[video_player.current_frame + 1]
            /\ video_player'.current_frame =
                   (video_player.current_frame + 1) % Len(video_player.video_array)
            /\ video_player'.video_array = video_player.video_array
       /\ ClipDelivered =>
            /\ video_player'.video_array = Head(events)
            /\ video_player'.current_frame = 0]_vars

\* C21: the last frame of a clip of two frames was drawn and the cursor is back at 0.
C21_Witness ==
    /\ last = <<"update_frame", TRUE>>
    /\ Len(video_player.video_array) = 2
    /\ video_player.video_label = video_player.video_array[2]
    /\ video_player.current_frame = 0

\* A step of a handler of the label window that reaches save_annotations.
LabelSaveAttempt ==
    \/ last'[1] \in {"add_label", "remove_label"}
    \/ last'[1] = "delete_label" /\ last'[2] = "Yes"
    \/ last'[1] = "edit_label" /\ last'[2]

\* The document after the step is the one the label operation of the step gives.
SomeLabelOp ==
    /\ last'[1] = "add_label" =>
          \E x \in Labels : annotations' = added(annotations, current_index, x)
    /\ last'[1] = "remove_label" =>
          \E x \in Labels : annotations' = removed(annotations, current_index, x)
    /\ last'[1] = "delete_label" =>
          \E x \in Labels : annotations' = deleted(annotations, x)
    /\ last'[1] = "edit_label" =>
          \E old \in Labels, new \in Labels : annotations' = renamed(annotations, old, new)

\* C22: when the file cannot be written, a label operation still leaves its
\* result in the document and in the two boxes and the window goes on taking
\* events; a save request of the match window leaves the document and the
\* unsaved-changes flag as they were, so that a close still asks.
C22_FailedSaveKeepsDocument ==
    [][~writable =>
          /\ (mode = "label" /\ LabelSaveAttempt) =>
                /\ SomeLabelOp
                /\ last'[Len(last')] = (annotations' # annotations)
                /\ label_options_box' = get_unique_labels(annotations')
                /\ current_labels_box' = annotations'[current_index + 1][4]
                /\ window' = "open" /\ main_pc'.at = "idle"
          /\ (mode = "match" /\ last' = <<"save_annotations">>) =>
                /\ annotations' = annotations
                /\ unsaved_changes' = unsaved_changes
                /\ window' = "open" /\ main_pc'.at = "idle"]_vars

\* C22: an add changed the document while the file could not be written, and the
\* file lacks the change.
C22_Witness ==
    /\ ~writable /\ last = <<"add_label", TRUE>>
    /\ file # annotations /\ window = "open"

\* C23: a decoded clip the viewer holds was decoded by a worker thread: no
\* viewer holds one in a program that has started no worker, where only a handler
\* of the event loop can have opened the video and decoded its frames.
C23_OnlyWorkersDecode ==
    video_player.video_array # None => \E t \in 1..NThreads : threads[t].st # "none"

\* C24: a step of the label window keeps the number of entries and the path,
\* start frame and end frame of every entry; an add and a remove keep the labels
\* of every entry but the one at the current index.
C24_LabelFrame ==
    [][mode = "label" =>
          /\ Len(annotations') = Len(annotations)
          /\ \A k \in DOMAIN annotations :
                /\ Len(annotations'[k]) = 4
                /\ annotations'[k][1] = annotations[k][1]
                /\ annotations'[k][2] = annotations[k][2]
                /\ annotations'[k][3] = annotations[k][3]
          /\ last'[1] \in {"add_label", "remove_label"} =>
                \A k \in DOMAIN annotations :
                    k # current_index + 1 => annotations'[k][4] = annotations[k][4]]_vars

\* C24: an add changed the entry at the current index, which now has a label
\* that another entry lacks.
C24_Witness ==
    /\ mode = "label" /\ last = <<"add_label", TRUE>>
    /\ \E k \in DOMAIN annotations, x \in Labels :
          /\ k # current_index + 1
          /\ In(x, annotations[current_index + 1][4])
          /\ ~In(x, annotations[k][4])

\* C25: a classification leaves every other entry as it is, and of the current
\* entry the query, the targets and their metadata; in its two lists only the
\* membership of the target clicked may change.
C25_ClassifyFrame ==
    [][(mode = "match" /\ ops' = ops + 1) =>
          LET e == annotations[current_index + 1]
              f == annotations'[current_index + 1]
          IN  /\ current_index' = current_index
              /\ Len(annotations') = Len(annotations)
              /\ \A k \in DOMAIN annotations :
                    k # current_index + 1 => annotations'[k] = annotations[k]
              /\ Len(f) = 5
              /\ f[1] = e[1] /\ f[2] = e[2] /\ f[3] = e[3]
              /\ \E t \in 0..(NTargets - 1) :
                    \A u \in 0..(NTargets - 1) :
                        u # t => /\ In(u, f[4]) <=> In(u, e[4])
                                 /\ In(u, f[5]) <=> In(u, e[5])]_vars

\* C25: after a classification the current entry holds two classified targets,
\* the one classified before and the one clicked.
C25_Witness ==
    /\ mode = "match" /\ last = <<"classify_target_video">> /\ ops = 1
    /\ LET e == annotations[current_index + 1]
       IN  /\ Len(e[4]) + Len(e[5]) = 2
           /\ \E t \in 0..(NTargets - 1), u \in 0..(NTargets - 1) :
                 /\ t # u
                 /\ In(t, e[4]) \/ In(t, e[5])
                 /\ In(u, e[4]) \/ In(u, e[5])

\* The labels list s holds.
Elements(s) == {s[j] : j \in DOMAIN s}

\* C26: in the open label window the label options box holds, in ascending order
\* and once each, the labels that some entry of the document has, and the current
\* labels box holds the labels of the entry at the current index.
C26_VocabularyConsistent ==
    (mode = "label" /\ window = "open") =>
        /\ StrictlySorted(label_options_box)
        /\ Elements(label_options_box) =
              UNION {Elements(annotations[k][4]) : k \in DOMAIN annotations}
        /\ current_labels_box = annotations[current_index + 1][4]

\* C26: a label was deleted from every entry and another label is still in the
\* vocabulary, on an entry that is not the current one.
C26_Witness ==
    /\ mode = "label" /\ last = <<"delete_label", "Yes", TRUE>>
    /\ label_options_box # <<>>
    /\ \E k \in DOMAIN annotations :
          k # current_index + 1 /\ annotations[k][4] # <<>>

\* Hues of every sixth of the colour circle, its ends included.
Hues == {(k * 4166667) % HueUnits : k \in 0..24} \cup {HueUnits - 1}

\* The three components of color are in 0..255.
IsRgb(color) == Len(color) = 3 /\ \A c \in 1..3 : color[c] \in 0..255

DeletedEverywhere(a, b, box, x) ==
    /\ ~In(x, box)
    /\ \A k \in DOMAIN a :
          \A v \in Labels :
              Count(b[k][4], v) = IF v = x THEN 0 ELSE Count(a[k][4], v)

\* C28: a delete answered Yes takes a label of the vocabulary out of every entry
\* and out of the vocabulary and keeps every other label of every entry; a delete
\* answered No, and a rename that is cancelled or given no text, leave the
\* document and the file as they are.
C28_DeleteEverywhere ==
    [][mode = "label" =>
          /\ (last'[1] = "delete_label" /\ last'[2] = "Yes") =>
                \E x \in Labels :
                    /\ In(x, label_options_box)
                    /\ DeletedEverywhere(annotations, annotations', label_options_box', x)
          /\ (last'[1] = "delete_label" /\ last'[2] = "No") =>
                annotations' = annotations /\ file' = file
          /\ (last'[1] = "edit_label" /\ ~last'[2]) =>
                annotations' = annotations /\ file' = file]_vars

\* C28: a label was deleted from every entry, and the current entry keeps
\* another label.
C28_Witness ==
    /\ mode = "label" /\ last = <<"delete_label", "Yes", TRUE>>
    /\ annotations[current_index + 1][4] # <<>>
    /\ \E x \in Labels : \A k \in DOMAIN annotations : ~In(x, annotations[k][4])

\* C29: in the label window and in the match window the constructor does not
\* fail at the resume index, and the current index is always the index of an
\* entry of the document.
C29_IndexValid ==
    mode \in {"label", "match"} =>
        /\ window # "failed"
        /\ current_index \in 0..(Len(annotations) - 1)

\* C30: in the match window, whenever the unsaved-changes flag is false the file
\* holds the document.
C30_FlagTracksFile ==
    (mode = "match" /\ ~unsaved_changes) => file = annotations

\* The viewer holds the decoded clip of the entry at index and its frame timer runs.
Playing(index) ==
    /\ video_player.frame_timer
    /\ video_player.video_array # None
    /\ video_player.video_array = decode(ViewerClip(index))

\* C31: when the index changes have stopped (every run has at most MaxNav of
\* them), under the scheduling of PlayerFairness a viewer that has a clip at the
\* final index eventually holds and plays the decoded clip of that entry, and from
\* then on holds no other clip, whatever decodes were under way or queued before.
C31_EventuallyFinalClip ==
    <>[](HasClip => Playing(current_index))

\* C31: the final clip plays after two index changes, the worker of the clip
\* requested before having been interrupted while it was decoding.
C31_Witness ==
    /\ HasClip /\ Playing(current_index)
    /\ navs >= 2 /\ Quiet /\ events = <<>> /\ Running = {}
    /\ \E t \in 1..NThreads : threads[t].st = "finished" /\ threads[t].intr

\* Every pending event has settled: the debounce interval has passed, no timer is
\* pending, no handler is under way, no worker runs and no emission is queued.
Settled == Quiet /\ Running = {} /\ events = <<>>

\* The target viewer followed plays the clip the entry at index has for it, under
\* the metadata the entry has for it.
TargetShown(index) ==
    /\ Playing(index)
    /\ video_player.medatada_label # None
    /\ video_player.medatada_label = annotations[index + 1][3][ObservedTarget + 1]

\* The target viewer followed holds no decoded clip and shows no frame and no
\* metadata.
TargetEmpty ==
    /\ video_player.video_array = None
    /\ video_player.video_label = None
    /\ video_player.medatada_label = None

\* C32, for a viewer the entry has a clip for: once the match window has settled
\* on an entry, the viewer plays that clip under its metadata.
C32_TargetWithClip ==
    (mode = "match" /\ window = "open" /\ Settled /\ HasClip) => TargetShown(current_index)

\* C32: once the match window has settled on an entry, a target viewer the entry
\* has a clip for plays that clip under its metadata, a target viewer beyond the
\* targets of the entry holds no decoded clip and shows no frame and no metadata,
\* and the background colours are those of the lists of the entry.
C32_MatchNavigationSettles ==
    (mode = "match" /\ window = "open" /\ Settled) =>
        /\ background = update_target_colors(annotations, current_index)
        /\ IF HasClip THEN TargetShown(current_index) ELSE TargetEmpty

\* C33: in the label workflow add and remove on the current entry complete
\* without error in every reachable state, also after a rename everywhere or a
\* delete everywhere has built the entries anew; stated of the window of main.py.
C33_AddRemoveComplete ==
    (mode = "main" /\ last[1] \in {"add_label", "remove_label"}) => last[2] = "returned"

=============================================================================
